---- MODULE Spec2Model ----
(***************************************************************************)
(* Model of the terminal reporter base (reporters/base.ts): the ANSI text  *)
(* helpers, the summary aggregator, the retry predicate, captured output,  *)
(* per-file durations and the failure block builder.                       *)
(***************************************************************************)
EXTENDS Integers, Sequences, FiniteSets, TLC

VARIABLES
  line,            \* fitToScreen / stripAnsiEscapes argument (sequence of characters)
  width,           \* fitToScreen argument
  suffix,          \* fitToScreen optional argument
  stripped,        \* value returned by stripAnsiEscapes(line)
  fitted,          \* value returned by fitToScreen(line, width, suffix)
  suite,           \* BaseReporter.suite: suite.allTests(), in enumeration order
  totalTestCount,  \* BaseReporter.totalTestCount
  summary,         \* value returned by generateSummary()
  rtest,           \* the test case willRetry is asked about
  asked,           \* the calls of willRetry so far, with their answers
  output,          \* result -> result[kOutputSymbol]
  delivered,       \* the onStdOut / onStdErr events delivered so far
  fileDurations,   \* BaseReporter.fileDurations
  ended,           \* the onTestEnd events delivered so far
  failure          \* the last formatFailure call and what it produced

ansiVars     == <<line, width, suffix, stripped, fitted>>
summaryVars  == <<suite, totalTestCount, summary>>
retryVars    == <<rtest, asked>>
outputVars   == <<output, delivered>>
durationVars == <<fileDurations, ended>>
vars == <<line, width, suffix, stripped, fitted, suite, totalTestCount, summary,
          rtest, asked, output, delivered, fileDurations, ended, failure>>

Undefined == "undefined"
\* undefined, where a defined value is a record
None == [undefined |-> TRUE]

Min(a, b) == IF a <= b THEN a ELSE b
Max(a, b) == IF a >= b THEN a ELSE b

\* hi, hi-1, ..., lo
Desc(hi, lo) == [k \in 1..(hi - lo + 1) |-> hi - k + 1]

\* F applied to each element of seq in order, results concatenated
FlatMap(F(_), seq) ==
  LET f[k \in 0..Len(seq)] == IF k = 0 THEN <<>> ELSE f[k - 1] \o F(seq[k])
  IN  f[Len(seq)]

-----------------------------------------------------------------------------
(* Bounds *)
MaxLen == 4         \* longest line
MaxWidth == 3       \* widest terminal
MaxTests == 4       \* most tests in a suite
MaxRetries == 2     \* largest test.retries
MaxAttempts == 4    \* most attempts of one test
NumResults == 2     \* results that output can be delivered for
MaxEvents == 3      \* most onStdOut / onStdErr / onTestEnd events
MaxDuration == 2    \* longest result.duration
MaxFormatted == 2   \* most attempts of a test given to formatFailure

-----------------------------------------------------------------------------
(* asciiRegex: character classes.  One or more representatives of every     *)
(* class of the pattern are named; "ESC" is \u001B, "CSI" is \u009B, "BEL"  *)
(* is \u0007, "0" a digit, "m" a letter that is a final byte, "x" a letter  *)
(* that is not.                                                             *)
EscChars    == {"ESC", "CSI"}
PrefixChars == {"[", "]", "(", ")", "#", ";", "?"}
AlnumChars  == {"0", "m", "x"}
ParamChars  == {"-", "0", "m", "x", "/", "#", "&", ".", ":", "=", "?", "%", "@", "~", "_"}
DigitChars  == {"0"}
FinalChars  == {"0", "m", "=", ">", "<", "~"}
BelChar     == "BEL"
SemiChar    == ";"

Alphabet == {"ESC", "[", ";", "0", "m", "x", "BEL"}

RECURSIVE RunLen(_, _, _)
\* number of consecutive characters of class C in s from position i (1-based)
RunLen(s, i, C) ==
  IF i <= Len(s) /\ s[i] \in C THEN 1 + RunLen(s, i + 1, C) ELSE 0

\* End positions, in backtracking order, of a greedy C{lo,hi} starting at i.
Repeat(s, i, C, lo, hi) ==
  LET n == Min(RunLen(s, i, C), hi)
  IN  IF n < lo THEN <<>> ELSE Desc(i + n, i + lo)

RECURSIVE ParamGroups(_, _)
\* (?:;[-a-zA-Z\d\/#&.:=?%@~_]*)*  from position i
ParamGroups(s, i) ==
  IF i <= Len(s) /\ s[i] = SemiChar
    THEN FlatMap(LAMBDA e : ParamGroups(s, e),
                 Repeat(s, i + 1, ParamChars, 0, Len(s))) \o <<i>>
    ELSE <<i>>

RECURSIVE DigitGroups(_, _)
\* (?:;\d{0,4})*  from position i
DigitGroups(s, i) ==
  IF i <= Len(s) /\ s[i] = SemiChar
    THEN FlatMap(LAMBDA e : DigitGroups(s, e),
                 Repeat(s, i + 1, DigitChars, 0, 4)) \o <<i>>
    ELSE <<i>>

\* A single character of class C at position i.
OneOf(s, i, C) == IF i <= Len(s) /\ s[i] \in C THEN <<i + 1>> ELSE <<>>

\* (?:(?:[a-zA-Z\d]*(?:;[-a-zA-Z\d\/#&.:=?%@~_]*)*)?\u0007)
OscAlt(s, i) ==
  FlatMap(LAMBDA e : OneOf(s, e, {BelChar}),
          FlatMap(LAMBDA c : ParamGroups(s, c),
                  Repeat(s, i, AlnumChars, 0, Len(s))) \o <<i>>)

\* (?:(?:\d{1,4}(?:;\d{0,4})*)?[\dA-PR-TZcf-ntqry=><~])
CsiAlt(s, i) ==
  FlatMap(LAMBDA e : OneOf(s, e, FinalChars),
          FlatMap(LAMBDA c : DigitGroups(s, c),
                  Repeat(s, i, DigitChars, 1, 4)) \o <<i>>)

\* End positions, in backtracking order, of a match of asciiRegex starting
\* at position p; the regex engine takes the first.
MatchEnds(s, p) ==
  IF p <= Len(s) /\ s[p] \in EscChars
    THEN FlatMap(LAMBDA a : OscAlt(s, a) \o CsiAlt(s, a),
                 Repeat(s, p + 1, PrefixChars, 0, Len(s)))
    ELSE <<>>

NoMatch == [index |-> -1, end |-> -1]

RECURSIVE Exec(_, _)
\* asciiRegex.exec(s) with lastIndex = from: the leftmost match at or after
\* from (0-based index, exclusive 0-based end), or NoMatch.
Exec(s, from) ==
  IF from >= Len(s) THEN NoMatch
  ELSE LET ends == MatchEnds(s, from + 1)
       IN  IF ends # <<>> THEN [index |-> from, end |-> ends[1] - 1]
           ELSE Exec(s, from + 1)

RECURSIVE ReplaceFrom(_, _)
\* str.replace(asciiRegex, '') from 0-based position from
ReplaceFrom(s, from) ==
  LET m == Exec(s, from)
  IN  IF m = NoMatch THEN SubSeq(s, from + 1, Len(s))
      ELSE SubSeq(s, from + 1, m.index) \o ReplaceFrom(s, m.end)

stripAnsiEscapes(str) == ReplaceFrom(str, 0)

\* line.substr(0, n)
Substr0(s, n) == SubSeq(s, 1, Min(Max(n, 0), Len(s)))

ResetCode == <<"ESC", "[", "0", "m">>

RECURSIVE FitLoop(_, _, _, _)
\* the while loop of fitToScreen; returns ansiLen
FitLoop(s, w, lastIndex, ansiLen) ==
  LET m == Exec(s, lastIndex)
  IN  IF m = NoMatch THEN ansiLen
      ELSE IF m.index - ansiLen >= w THEN ansiLen
      ELSE FitLoop(s, w, m.end, ansiLen + (m.end - m.index))

RECURSIVE AllAnsiLen(_, _)
\* total length of the escape sequences of s from 0-based position from
AllAnsiLen(s, from) ==
  LET m == Exec(s, from)
  IN  IF m = NoMatch THEN 0 ELSE (m.end - m.index) + AllAnsiLen(s, m.end)

\* faulty variant: the loop never breaks, every escape sequence of the line is counted
fitToScreen_noBreak(ln, wd, sfx) ==
  LET w == wd - Len(stripAnsiEscapes(sfx))
  IN  IF Len(ln) <= w THEN ln
      ELSE Substr0(ln, w + AllAnsiLen(ln, 0)) \o ResetCode

fitToScreen(ln, wd, sfx) ==
  LET w == wd - Len(stripAnsiEscapes(sfx))
  IN  IF Len(ln) <= w THEN ln
      ELSE Substr0(ln, w + FitLoop(ln, w, 0, 0)) \o ResetCode

-----------------------------------------------------------------------------
RECURSIVE SeqsUpTo(_, _)
SeqsUpTo(S, n) ==
  IF n = 0 THEN {<<>>}
  ELSE LET prev == SeqsUpTo(S, n - 1)
       IN  prev \cup {Append(q, c) : q \in {r \in prev : Len(r) = n - 1}, c \in S}

Lines == SeqsUpTo(Alphabet, MaxLen)
Suffixes == {<<>>, <<"ESC", "[", "0", "m", "x">>}


IdleAnsi ==
  /\ line = <<>> /\ width = 0 /\ suffix = <<>>
  /\ stripped = Undefined /\ fitted = Undefined
IdleSummary == suite = Undefined /\ totalTestCount = 0 /\ summary = None
IdleRetry == rtest = None /\ asked = <<>>
IdleOutput == output = <<>> /\ delivered = <<>>
IdleDurations == fileDurations = <<>> /\ ended = <<>>
IdleFailure == failure = None

-----------------------------------------------------------------------------
(* stripAnsiEscapes applied to every line over the alphabet *)
InitStrip ==
  /\ line \in Lines
  /\ width = 0 /\ suffix = <<>> /\ stripped = Undefined /\ fitted = Undefined
  /\ IdleSummary /\ IdleRetry /\ IdleOutput /\ IdleDurations /\ IdleFailure

StripCall ==
  /\ stripped = Undefined
  /\ stripped' = stripAnsiEscapes(line)
  /\ UNCHANGED <<line, width, suffix, fitted>>
  /\ UNCHANGED <<summaryVars, retryVars, outputVars, durationVars, failure>>

NextStrip == StripCall
SpecStrip == InitStrip /\ [][NextStrip]_vars

(* fitToScreen applied to every line, width and suffix *)
InitFit ==
  /\ line \in Lines
  /\ width \in 0..MaxWidth
  /\ suffix \in Suffixes
  /\ stripped = Undefined /\ fitted = Undefined
  /\ IdleSummary /\ IdleRetry /\ IdleOutput /\ IdleDurations /\ IdleFailure

FitCall ==
  /\ fitted = Undefined
  /\ fitted' = fitToScreen(line, width, suffix)
  /\ UNCHANGED <<line, width, suffix, stripped>>
  /\ UNCHANGED <<summaryVars, retryVars, outputVars, durationVars, failure>>

NextFit == FitCall
SpecFit == InitFit /\ [][NextFit]_vars

\* the width left once the suffix is reserved; the visible length of a text
Available == width - Len(stripAnsiEscapes(suffix))
Visible(s) == Len(stripAnsiEscapes(s))
EndsWithReset(s) ==
  Len(s) >= Len(ResetCode) /\ SubSeq(s, Len(s) - Len(ResetCode) + 1, Len(s)) = ResetCode

\* C5: a line whose visible length (escapes stripped) is at most the width is
\* returned by fitToScreen unchanged.
C5_FitsUnchanged ==
  (fitted # Undefined /\ Visible(line) <= Available) => fitted = line

\* C6 as stated: a line whose visible length exceeds the width, for any width
\* including negative ones, comes back with visible length at most the width
\* and ending with the reset code.
C6_TruncatedWithinWidth ==
  (fitted # Undefined /\ Visible(line) > Available)
    => (Visible(fitted) <= Available /\ EndsWithReset(fitted))

\* C6 amended: a line whose visible length exceeds the width comes back with
\* visible length at most max(width, 0) and ending with the reset code.
C6_TruncatedWithinNonNegWidth ==
  (fitted # Undefined /\ Visible(line) > Available)
    => (Visible(fitted) <= Max(Available, 0) /\ EndsWithReset(fitted))

\* C6 witness: a line with an escape sequence inside the kept part was cut
\* to a positive width.
C6_Witness ==
  /\ fitted # Undefined
  /\ Available >= 1
  /\ Visible(line) > Available
  /\ FitLoop(line, Available, 0, 0) > 0
  /\ Visible(fitted) = Available

\* C7: stripAnsiEscapes is idempotent and its result holds nothing the escape
\* pattern matches.
C7_StripIdempotent ==
  stripped # Undefined
    => (stripAnsiEscapes(stripped) = stripped /\ Exec(stripped, 0) = NoMatch)

-----------------------------------------------------------------------------
(* SummaryAggregator: onBegin and generateSummary.  A test is what          *)
(* generateSummary reads of it: test.outcome(), computed by the execution   *)
(* engine, and whether each of test.results carries an error.  The lists of *)
(* a summary hold tests by their position in suite.allTests().              *)
Outcomes == {"skipped", "expected", "unexpected", "flaky"}
ErrorLists == {<<>>, <<FALSE>>, <<FALSE, TRUE>>}
TestCases == [outcome : Outcomes, errors : ErrorLists]
Suites == SeqsUpTo(TestCases, MaxTests)

\* test.results.some(result => !!result.error)
SomeError(t) == \E k \in 1..Len(t.errors) : t.errors[k]

EmptySummary ==
  [skipped |-> 0, expected |-> 0, skippedWithError |-> <<>>,
   unexpected |-> <<>>, flaky |-> <<>>]

\* one iteration of the forEach: the switch on test.outcome()
SummaryCase(acc, tests, i) ==
  LET t == tests[i] IN
  CASE t.outcome = "skipped" ->
         [acc EXCEPT !.skipped = @ + 1,
                     !.skippedWithError = IF SomeError(t) THEN Append(@, i) ELSE @]
    [] t.outcome = "expected"   -> [acc EXCEPT !.expected = @ + 1]
    [] t.outcome = "unexpected" -> [acc EXCEPT !.unexpected = Append(@, i)]
    [] t.outcome = "flaky"      -> [acc EXCEPT !.flaky = Append(@, i)]

\* the switch with the break of case 'skipped' missing
SummaryCase_fallthrough(acc, tests, i) ==
  LET t == tests[i] IN
  CASE t.outcome = "skipped" ->
         [acc EXCEPT !.skipped = @ + 1,
                     !.skippedWithError = IF SomeError(t) THEN Append(@, i) ELSE @,
                     !.expected = @ + 1]
    [] t.outcome = "expected"   -> [acc EXCEPT !.expected = @ + 1]
    [] t.outcome = "unexpected" -> [acc EXCEPT !.unexpected = Append(@, i)]
    [] t.outcome = "flaky"      -> [acc EXCEPT !.flaky = Append(@, i)]

\* this.suite.allTests().forEach(...)
SummaryLoop(Case(_, _, _), tests) ==
  LET f[k \in 0..Len(tests)] ==
        IF k = 0 THEN EmptySummary ELSE Case(f[k - 1], tests, k)
  IN  f[Len(tests)]

WithFailures(acc, failures) ==
  [skipped |-> acc.skipped, expected |-> acc.expected,
   skippedWithError |-> acc.skippedWithError, unexpected |-> acc.unexpected,
   flaky |-> acc.flaky, failuresToPrint |-> failures]

\* faulty variant: case 'skipped' falls through into case 'expected'
generateSummary_fallthrough(tests) ==
  LET acc == SummaryLoop(SummaryCase_fallthrough, tests)
  IN  WithFailures(acc, acc.unexpected \o acc.flaky \o acc.skippedWithError)

\* faulty variant: flaky tests are printed before the unexpected ones
generateSummary_flakyFirst(tests) ==
  LET acc == SummaryLoop(SummaryCase, tests)
  IN  WithFailures(acc, acc.flaky \o acc.unexpected \o acc.skippedWithError)

generateSummary(tests) ==
  LET acc == SummaryLoop(SummaryCase, tests)
  IN  WithFailures(acc, acc.unexpected \o acc.flaky \o acc.skippedWithError)

InitSummary ==
  /\ IdleSummary
  /\ IdleAnsi /\ IdleRetry /\ IdleOutput /\ IdleDurations /\ IdleFailure

onBegin ==
  /\ suite = Undefined
  /\ \E tests \in Suites :
       /\ suite' = tests
       /\ totalTestCount' = Len(tests)
  /\ UNCHANGED summary
  /\ UNCHANGED <<ansiVars, retryVars, outputVars, durationVars, failure>>

\* epilogue(): const summary = this.generateSummary()
epilogue ==
  /\ suite # Undefined
  /\ summary' = generateSummary(suite)
  /\ UNCHANGED <<suite, totalTestCount>>
  /\ UNCHANGED <<ansiVars, retryVars, outputVars, durationVars, failure>>

NextSummary == onBegin \/ epilogue
SpecSummary == InitSummary /\ [][NextSummary]_vars

Range(q) == {q[k] : k \in 1..Len(q)}
NoDuplicates(q) == Cardinality(Range(q)) = Len(q)
WithOutcome(o) == {i \in 1..Len(suite) : suite[i].outcome = o}
\* the positions 1..Len(tests) that satisfy P, in increasing order
Positions(P(_)) == SelectSeq([i \in 1..Len(suite) |-> i], P)

\* C1: the outcome buckets of generateSummary() are disjoint, every test of
\* the suite is in exactly one of them, and skipped + expected + |unexpected|
\* + |flaky| is the suite's total test count.
C1_BucketsPartition ==
  summary # None =>
    /\ Range(summary.unexpected) \cap Range(summary.flaky) = {}
    /\ NoDuplicates(summary.unexpected) /\ NoDuplicates(summary.flaky)
    /\ summary.skipped = Cardinality(WithOutcome("skipped"))
    /\ summary.expected = Cardinality(WithOutcome("expected"))
    /\ Range(summary.unexpected) = WithOutcome("unexpected")
    /\ Range(summary.flaky) = WithOutcome("flaky")
    /\ summary.skipped + summary.expected + Len(summary.unexpected)
         + Len(summary.flaky) = totalTestCount
    /\ totalTestCount = Len(suite)

\* C1 witness: a summary of a suite holding a test of every outcome, the
\* skipped one with an error.
C1_Witness ==
  /\ summary # None
  /\ \A o \in Outcomes : WithOutcome(o) # {}
  /\ summary.skippedWithError # <<>>

\* C2: failuresToPrint is unexpected ++ flaky ++ skippedWithError, each of
\* the three in the order suite.allTests() enumerated the tests.
C2_FailuresToPrintOrder ==
  summary # None =>
    /\ summary.failuresToPrint =
         summary.unexpected \o summary.flaky \o summary.skippedWithError
    /\ summary.unexpected = Positions(LAMBDA i : suite[i].outcome = "unexpected")
    /\ summary.flaky = Positions(LAMBDA i : suite[i].outcome = "flaky")
    /\ summary.skippedWithError =
         Positions(LAMBDA i : suite[i].outcome = "skipped" /\ SomeError(suite[i]))

\* C2 witness: a summary whose three failure lists are all non-empty.
C2_Witness ==
  /\ summary # None
  /\ summary.unexpected # <<>> /\ summary.flaky # <<>>
  /\ summary.skippedWithError # <<>>
  /\ Len(summary.failuresToPrint) >= 3

-----------------------------------------------------------------------------
(* willRetry.  The execution engine appends a result to test.results when   *)
(* an attempt ends, classifies the test (test.outcome()), and the reporter  *)
(* is asked whether the test will be retried.                               *)
\* faulty variant: the attempt made so far is not counted
willRetry_strict(test) ==
  test.outcome = "unexpected" /\ Len(test.results) < test.retries

willRetry(test) ==
  test.outcome = "unexpected" /\ Len(test.results) <= test.retries

InitRetry ==
  /\ rtest \in [retries : 0..MaxRetries, results : {<<>>}, outcome : {Undefined}]
  /\ asked = <<>>
  /\ IdleAnsi /\ IdleSummary /\ IdleOutput /\ IdleDurations /\ IdleFailure

\* an attempt ends with the test classified as o, then willRetry(test) is asked
AttemptEnd(o) ==
  /\ rtest # None
  /\ Len(rtest.results) < MaxAttempts
  /\ LET t == [rtest EXCEPT !.results = Append(@, [retry |-> Len(@)]),
                            !.outcome = o]
     IN  /\ rtest' = t
         /\ asked' = Append(asked, [outcome |-> o, attempts |-> Len(t.results),
                                    answer |-> willRetry(t)])
  /\ UNCHANGED <<ansiVars, summaryVars, outputVars, durationVars, failure>>

NextRetry == \E o \in Outcomes : AttemptEnd(o)
SpecRetry == InitRetry /\ [][NextRetry]_vars

\* C3: willRetry(test) is true exactly when the outcome is 'unexpected' and
\* results.length <= retries; it is false once results.length exceeds retries,
\* and over the attempts of a test it answers true at most retries times.
C3_WillRetryBudget ==
  /\ \A k \in 1..Len(asked) :
       /\ asked[k].answer =
            (asked[k].outcome = "unexpected" /\ asked[k].attempts <= rtest.retries)
       /\ asked[k].attempts > rtest.retries => ~asked[k].answer
  /\ Cardinality({k \in 1..Len(asked) : asked[k].answer}) <= rtest.retries

\* C3 witness: every attempt failed; willRetry answered true retries times
\* and then false, with the outcome still unexpected.
C3_Witness ==
  /\ rtest # None
  /\ rtest.retries = MaxRetries
  /\ Len(asked) = rtest.retries + 1
  /\ \A k \in 1..Len(asked) : asked[k].outcome = "unexpected"
  /\ \A k \in 1..rtest.retries : asked[k].answer
  /\ ~asked[Len(asked)].answer

-----------------------------------------------------------------------------
(* Captured output: onStdOut, onStdErr, _appendOutput.  An optional result  *)
(* argument is <<>> when absent and <<r>> when it names result r.           *)
ResultIds == 1..NumResults
Chunks == {"a", "b"}
OptionalResults == {<<>>} \cup {<<r>> : r \in ResultIds}

\* faulty variant: the log is created anew on every event
AppendOutput_reset(out, result) ==
  IF result = <<>>
    THEN UNCHANGED output
    ELSE output' = [output EXCEPT ![result[1]] = <<out>>]

\* _appendOutput
AppendOutput(out, result) ==
  IF result = <<>>
    THEN UNCHANGED output
    ELSE output' = [output EXCEPT
                      ![result[1]] = Append(IF @ = Undefined THEN <<>> ELSE @, out)]

InitOutput ==
  /\ output = [r \in ResultIds |-> Undefined]
  /\ delivered = <<>>
  /\ IdleAnsi /\ IdleSummary /\ IdleRetry /\ IdleDurations /\ IdleFailure

onStdOut(chunk, result) ==
  /\ Len(delivered) < MaxEvents
  /\ AppendOutput([chunk |-> chunk, type |-> "stdout"], result)
  /\ delivered' = Append(delivered, [chunk |-> chunk, type |-> "stdout", result |-> result])
  /\ UNCHANGED <<ansiVars, summaryVars, retryVars, durationVars, failure>>

onStdErr(chunk, result) ==
  /\ Len(delivered) < MaxEvents
  /\ AppendOutput([chunk |-> chunk, type |-> "stderr"], result)
  /\ delivered' = Append(delivered, [chunk |-> chunk, type |-> "stderr", result |-> result])
  /\ UNCHANGED <<ansiVars, summaryVars, retryVars, durationVars, failure>>

NextOutput ==
  \/ \E chunk \in Chunks, result \in OptionalResults : onStdOut(chunk, result)
  \/ \E chunk \in Chunks, result \in OptionalResults : onStdErr(chunk, result)
SpecOutput == InitOutput /\ [][NextOutput]_vars

\* the events delivered for result r, in arrival order, as output records
DeliveredFor(r) ==
  LET mine == SelectSeq(delivered, LAMBDA e : e.result = <<r>>)
  IN  [k \in 1..Len(mine) |-> [chunk |-> mine[k].chunk, type |-> mine[k].type]]

IsPrefix(p, q) == Len(p) <= Len(q) /\ SubSeq(q, 1, Len(p)) = p

LogsMatchDelivered ==
  \A r \in DOMAIN output :
    output[r] = IF DeliveredFor(r) = <<>> THEN Undefined ELSE DeliveredFor(r)

LogsOnlyGrow ==
  /\ \A r \in DOMAIN output :
       output[r] # Undefined => (output'[r] # Undefined /\ IsPrefix(output[r], output'[r]))
  /\ Len(delivered') = Len(delivered) + 1 =>
       LET e == delivered'[Len(delivered')] IN
         /\ e.result = <<>> => output' = output
         /\ \A r \in DOMAIN output : e.result # <<r>> => output'[r] = output[r]

\* C4: under any interleaving of onStdOut / onStdErr events each log holds
\* exactly the events delivered for its result, in arrival order with their
\* stream tag; a log exists from the first event on and is never reset or
\* shortened; an event with no result changes no log.
C4_OutputLogs == []LogsMatchDelivered /\ [][LogsOnlyGrow]_vars

\* C4 witness: events of two results interleaved, one result with both
\* streams, and an event with no result in between.
C4_Witness ==
  /\ Len(delivered) = 3
  /\ \E r \in DOMAIN output : output[r] # Undefined /\ Len(output[r]) = 2
                               /\ output[r][1].type # output[r][2].type
  /\ delivered[2].result = <<>>

-----------------------------------------------------------------------------
(* Per-file durations: onTestEnd.  A path is the sequence of its segments.  *)
(* In a key, ">" stands for the character U+203A of the source.             *)
RootDir == <<"repo", "tests">>
Files == {<<"repo", "tests", "a.spec.ts">>, <<"repo", "tests", "dir", "a.spec.ts">>}
Projects == {"", "chromium", "firefox"}

RECURSIVE Join(_)
\* segments.join('/')
Join(segs) ==
  IF segs = <<>> THEN ""
  ELSE IF Len(segs) = 1 THEN segs[1]
  ELSE segs[1] \o "/" \o Join(Tail(segs))

RECURSIVE CommonPrefixLen(_, _)
CommonPrefixLen(a, b) ==
  IF a # <<>> /\ b # <<>> /\ Head(a) = Head(b)
    THEN 1 + CommonPrefixLen(Tail(a), Tail(b)) ELSE 0

\* path.relative(from, to)
PathRelative(from, to) ==
  LET c == CommonPrefixLen(from, to)
  IN  Join([k \in 1..(Len(from) - c) |-> ".."] \o SubSeq(to, c + 1, Len(to)))

\* path.basename(file)
Basename(file) == IF file = <<>> THEN "" ELSE file[Len(file)]

relativeFilePath(file) ==
  LET r == PathRelative(RootDir, file) IN IF r # "" THEN r ELSE Basename(file)

relativeTestPath(test) == relativeFilePath(test.file)

fileAndProject(test) ==
  (IF test.projectName # "" THEN "[" \o test.projectName \o "] > " ELSE "")
    \o relativeTestPath(test)

\* this.fileDurations.get(key) || 0
GetOrZero(map, key) == IF key \in DOMAIN map THEN map[key] ELSE 0

\* this.fileDurations.set(key, value)
MapSet(map, key, value) ==
  [k \in DOMAIN map \cup {key} |-> IF k = key THEN value ELSE map[k]]

\* faulty variant: the entry is overwritten with the last duration
RecordDuration_overwrite(test, result) ==
  fileDurations' = MapSet(fileDurations, fileAndProject(test), result.duration)

\* the body of onTestEnd
RecordDuration(test, result) ==
  LET key == fileAndProject(test)
      duration == GetOrZero(fileDurations, key)
  IN  fileDurations' = MapSet(fileDurations, key, duration + result.duration)

InitDurations ==
  /\ IdleDurations
  /\ IdleAnsi /\ IdleSummary /\ IdleRetry /\ IdleOutput /\ IdleFailure

onTestEnd(test, result) ==
  /\ Len(ended) < MaxEvents
  /\ RecordDuration(test, result)
  /\ ended' = Append(ended, [test |-> test, duration |-> result.duration])
  /\ UNCHANGED <<ansiVars, summaryVars, retryVars, outputVars, failure>>

NextDurations ==
  \E test \in [projectName : Projects, file : Files],
     result \in [duration : 0..MaxDuration] : onTestEnd(test, result)
SpecDurations == InitDurations /\ [][NextDurations]_vars

RECURSIVE SumDurations(_)
SumDurations(events) ==
  IF events = <<>> THEN 0 ELSE Head(events).duration + SumDurations(Tail(events))

\* the key the claim names for a project and a relative path
ClaimedKey(project, relativePath) ==
  IF project = "" THEN relativePath ELSE "[" \o project \o "] > " \o relativePath

RelativePaths ==
  (<<"repo", "tests", "a.spec.ts">> :> "a.spec.ts")
    @@ (<<"repo", "tests", "dir", "a.spec.ts">> :> "dir/a.spec.ts")

DurationsAreSums ==
  /\ DOMAIN fileDurations =
       {ClaimedKey(ended[k].test.projectName, RelativePaths[ended[k].test.file])
          : k \in 1..Len(ended)}
  /\ \A p \in Projects, f \in Files :
       LET mine == SelectSeq(ended, LAMBDA e : e.test.projectName = p /\ e.test.file = f)
       IN  mine # <<>> =>
             fileDurations[ClaimedKey(p, RelativePaths[f])] = SumDurations(mine)

DurationsOnlyGrow ==
  /\ \A k \in DOMAIN fileDurations :
       k \in DOMAIN fileDurations' /\ fileDurations'[k] >= fileDurations[k]
  /\ Len(ended') = Len(ended) + 1 =>
       LET e == ended'[Len(ended')]
           own == ClaimedKey(e.test.projectName, RelativePaths[e.test.file])
       IN  /\ own \in DOMAIN fileDurations'
           /\ \A k \in DOMAIN fileDurations' \ {own} :
                k \in DOMAIN fileDurations /\ fileDurations'[k] = fileDurations[k]

\* C10: after any sequence of onTestEnd events fileDurations maps each key
\* ("[project] > relativePath", or the bare relativePath without a project
\* name) to the sum of the durations of exactly the events of that project
\* and file; an event changes only its own key's entry and, durations being
\* non-negative, no entry ever decreases.
C10_FileDurations == []DurationsAreSums /\ [][DurationsOnlyGrow]_vars

\* C10 witness: two events of one file and project summed, beside an entry
\* of the same file under another project and one without a project.
C10_Witness ==
  /\ Len(ended) = 3
  /\ ended[1].test = ended[3].test /\ ended[1].test.projectName = "chromium"
  /\ ended[2].test.projectName = "" /\ ended[2].test.file = ended[1].test.file
  /\ ended[1].duration > 0 /\ ended[3].duration > 0
  /\ Cardinality(DOMAIN fileDurations) = 2

-----------------------------------------------------------------------------
(* FailureBlockBuilder: formatError, formatResultFailure, formatFailure.    *)
(* A rendered line is a record [kind, attempt, detail]; a message is the    *)
(* sequence of its lines (lines.join).  The file system and the code-frame  *)
(* renderer are the environment env: "ok", "readFails" (realpathSync or     *)
(* readFileSync throws) or "frameFails" (codeFrameColumns throws).          *)
TestFile == "test.spec.ts"
HelperFile == "helper.ts"
NoLocation == [file |-> ""]

\* error.stack: "" when absent; otherwise named by what the frame parser
\* resolves: no frame ("unresolved"), a first frame in the test's own file
\* ("inTest") or in another file ("inHelper").
Errors ==
  { [stack |-> "",           message |-> "",     value |-> ""],
    [stack |-> "",           message |-> "boom", value |-> ""],
    [stack |-> "",           message |-> "",     value |-> "42"],
    [stack |-> "unresolved", message |-> "boom", value |-> ""],
    [stack |-> "inTest",     message |-> "boom", value |-> ""],
    [stack |-> "inHelper",   message |-> "boom", value |-> ""] }
NoError == [undefined |-> TRUE]

Attachments ==
  { [name |-> "trace", contentType |-> "application/zip", path |-> "t.zip", body |-> "none"],
    [name |-> "log",   contentType |-> "text/plain",      path |-> "l.txt", body |-> "none"],
    [name |-> "log",   contentType |-> "text/plain",      path |-> "",      body |-> "short"],
    [name |-> "log",   contentType |-> "text/plain",      path |-> "",      body |-> "long"],
    [name |-> "shot",  contentType |-> "image/png",       path |-> "",      body |-> "short"],
    [name |-> "shot",  contentType |-> "image/png",       path |-> "",      body |-> "none"],
    [name |-> "log",   contentType |-> "text/plain",      path |-> "",      body |-> "none"] }

CapturedOutput ==
  << [chunk |-> <<"x">>, type |-> "stdout"],
     [chunk |-> <<"ESC", "[", "0", "m", "x">>, type |-> "stderr"] >>

Line(kind, detail) == [kind |-> kind, attempt |-> 0, detail |-> detail]
Blank == Line("blank", <<>>)

RECURSIVE JoinLines(_)
\* lines.join('\n'), the line break written "|"
JoinLines(lines) ==
  IF lines = <<>> THEN ""
  ELSE IF Len(lines) = 1 THEN lines[1]
  ELSE lines[1] \o "|" \o JoinLines(Tail(lines))

\* prepareErrorStack(stack)
prepareErrorStack(stack) ==
  [message |-> "Error: boom",
   stackLines |-> IF stack = "unresolved" THEN <<"    at <anonymous>">>
                  ELSE <<"    at fn (file:3:7)", "    at <anonymous>">>,
   location |-> IF stack = "inTest" THEN [file |-> TestFile]
                ELSE IF stack = "inHelper" THEN [file |-> HelperFile]
                ELSE NoLocation]

\* the try block of formatError: what it pushes, nothing when it throws
CodeFrameTokens(location, file, env) ==
  IF env # "ok" THEN <<>>
  ELSE (IF file = "" \/ file # location.file
          THEN <<"", "at " \o location.file>> ELSE <<>>)
       \o <<"", "codeFrame">>

formatError(error, file, env) ==
  IF error.stack # ""
    THEN LET parsed == prepareErrorStack(error.stack)
         IN  [location |-> parsed.location,
              message |-> <<"", parsed.message>>
                          \o (IF parsed.location # NoLocation
                                THEN CodeFrameTokens(parsed.location, file, env)
                                ELSE <<>>)
                          \o <<"", JoinLines(parsed.stackLines)>>]
    ELSE IF error.message # ""
      THEN [location |-> NoLocation, message |-> <<"", error.message>>]
    ELSE IF error.value # ""
      THEN [location |-> NoLocation, message |-> <<"", error.value>>]
    ELSE [location |-> NoLocation, message |-> <<"">>]

formatResultFailure(test, result, env) ==
  LET timeout == IF result.status = "timedOut"
                   THEN <<Blank, Line("timeout", <<>>)>> ELSE <<>>
      unexpectedPass == IF result.status = "passed" /\ test.expectedStatus = "failed"
                          THEN <<Blank, Line("expectedToFail", <<>>)>> ELSE <<>>
      error == IF result.error # NoError
                 THEN formatError(result.error, TestFile, env)
                 ELSE [location |-> NoLocation, message |-> <<>>]
  IN  [tokens |-> timeout \o unexpectedPass
                   \o (IF result.error # NoError
                         THEN <<Line("error", error.message)>> ELSE <<>>),
       location |-> error.location]

\* the lines of one attachment; raises when body!.toString() is reached
\* with no body
AttachmentLines(attachment, i) ==
  LET marker == <<Blank, Line("attachment", <<i, attachment.name, attachment.contentType>>)>>
      close  == <<Line("separator", <<>>)>>
  IN  IF attachment.path # ""
        THEN [threw |-> FALSE,
              lines |-> marker \o <<Line("path", <<attachment.path>>)>>
                        \o (IF attachment.name = "trace"
                              THEN <<Line("usage", <<>>), Blank,
                                     Line("showTrace", <<attachment.path>>), Blank>>
                              ELSE <<>>)
                        \o close]
      ELSE IF attachment.contentType \in {"text/plain"}
        THEN IF attachment.body = "none"
               THEN [threw |-> TRUE, lines |-> <<>>]
               ELSE [threw |-> FALSE,
                     lines |-> marker
                               \o <<Line("text", <<IF attachment.body = "long"
                                                     THEN "first300..." ELSE attachment.body>>)>>
                               \o close]
      ELSE [threw |-> FALSE, lines |-> marker \o close]

\* the loop over result.attachments
AllAttachmentLines(attachments) ==
  LET f[k \in 0..Len(attachments)] ==
        IF k = 0 THEN [threw |-> FALSE, lines |-> <<>>]
        ELSE IF f[k - 1].threw THEN f[k - 1]
        ELSE LET a == AttachmentLines(attachments[k], k)
             IN  [threw |-> a.threw, lines |-> f[k - 1].lines \o a.lines]
  IN  f[Len(attachments)]

\* the "Test output" block
OutputLines(out) ==
  LET text == FlatMap(LAMBDA o : IF o.type = "stderr"
                                   THEN stripAnsiEscapes(o.chunk) ELSE o.chunk, out)
  IN  <<Blank, Line("output", text)>>

\* what one iteration of the loop over test.results adds, given the parts
\* it computes: nothing without tokens, an exception when an attachment raised
BlockOf(details, retry, attached, stdio) ==
  IF details.tokens = <<>>
    THEN [threw |-> FALSE, rendered |-> FALSE, lines |-> <<>>, location |-> NoLocation]
  ELSE IF attached.threw
    THEN [threw |-> TRUE, rendered |-> FALSE, lines |-> <<>>, location |-> NoLocation]
  ELSE [threw |-> FALSE, rendered |-> TRUE,
        lines |-> retry \o details.tokens \o attached.lines \o stdio,
        location |-> details.location]

\* one iteration of the loop over test.results
ResultBlock(test, result, options, env) ==
  BlockOf(formatResultFailure(test, result, env),
          IF result.retry # 0 THEN <<Blank, Line("retry", <<result.retry>>)>> ELSE <<>>,
          IF options.includeAttachments
            THEN AllAttachmentLines(result.attachments)
            ELSE [threw |-> FALSE, lines |-> <<>>],
          IF options.includeStdio /\ result.output # <<>>
            THEN OutputLines(result.output) ELSE <<>>)

Header == Line("header", <<>>)
Raised == [threw |-> TRUE, message |-> <<>>, annotations |-> <<>>]

\* lines.push(...resultLines) and annotations.push(...) for attempt k
PushBlock(sofar, b, k) ==
  LET mine == [j \in 1..Len(b.lines) |-> [b.lines[j] EXCEPT !.attempt = k]]
  IN  IF sofar.threw \/ b.threw THEN Raised
      ELSE IF ~b.rendered THEN sofar
      ELSE [threw |-> FALSE,
            message |-> sofar.message \o mine,
            annotations |-> Append(sofar.annotations,
                                   [location |-> b.location, attempt |-> k,
                                    message |-> <<Header>> \o mine])]

\* lines.push('') and the return
Finish(all) == IF all.threw THEN Raised ELSE [all EXCEPT !.message = Append(@, Blank)]

formatFailure(test, options, env) ==
  LET f[k \in 0..Len(test.results)] ==
        IF k = 0 THEN [threw |-> FALSE, message |-> <<Header>>, annotations |-> <<>>]
        ELSE PushBlock(f[k - 1], ResultBlock(test, test.results[k], options, env), k)
  IN  Finish(f[Len(test.results)])

\* the attempts formatFailure is given: every status with every error shape,
\* a failed attempt with every attachment shape or with captured output, and
\* a passed attempt carrying an attachment
Attempts ==
  [status : {"passed", "failed", "timedOut"}, error : Errors \cup {NoError},
   attachments : {<<>>}, output : {<<>>}]
  \cup [status : {"failed"}, error : {[stack |-> "", message |-> "boom", value |-> ""]},
         attachments : {<<a>> : a \in Attachments}, output : {<<>>}]
  \cup [status : {"failed"}, error : {[stack |-> "", message |-> "boom", value |-> ""]},
         attachments : {<<>>}, output : {CapturedOutput}]
  \cup [status : {"passed"}, error : {NoError},
         attachments : {<<a>> : a \in Attachments}, output : {<<>>}]

\* the test case under construction has expectedStatus and no result yet
InitFailure ==
  /\ failure \in [test : [expectedStatus : {"passed", "failed"}, results : {<<>>}],
                   call : {None}]
  /\ IdleAnsi /\ IdleSummary /\ IdleRetry /\ IdleOutput /\ IdleDurations

\* the execution engine ends an attempt: attempt k has retry index k - 1
attemptRecorded(a) ==
  /\ failure.call = None
  /\ Len(failure.test.results) < MaxFormatted
  /\ failure' = [failure EXCEPT !.test.results =
                    Append(@, [status |-> a.status, retry |-> Len(@), error |-> a.error,
                               attachments |-> a.attachments, output |-> a.output])]
  /\ UNCHANGED <<ansiVars, summaryVars, retryVars, outputVars, durationVars>>

\* _printFailures: formatFailure(this.config, test, {index, includeStdio})
printFailure(options, env) ==
  /\ failure.call = None
  /\ failure' = [failure EXCEPT !.call =
                    [options |-> options, env |-> env,
                     result |-> formatFailure(failure.test, options, env)]]
  /\ UNCHANGED <<ansiVars, summaryVars, retryVars, outputVars, durationVars>>

NextFailure ==
  \/ \E a \in Attempts : attemptRecorded(a)
  \/ \E options \in [includeStdio : BOOLEAN, includeAttachments : BOOLEAN],
        env \in {"ok", "readFails", "frameFails"} : printFailure(options, env)
SpecFailure == InitFailure /\ [][NextFailure]_vars

\* the formatFailure call made, its test, and the lines and annotations of
\* attempt k in what it returned
Call == failure.call
Returned == failure.call.result
FormattedTest == failure.test
TokensOf(k) ==
  LET toks == formatResultFailure(FormattedTest, FormattedTest.results[k], Call.env).tokens
  IN  [j \in 1..Len(toks) |-> [toks[j] EXCEPT !.attempt = k]]
LinesOf(k) == SelectSeq(Returned.message, LAMBDA l : l.attempt = k)
AnnotationsOf(k) == SelectSeq(Returned.annotations, LAMBDA a : a.attempt = k)
RetryMarkers(lines) == SelectSeq(lines, LAMBDA l : l.kind = "retry")
InAttemptOrder(lines) ==
  \A i, j \in 1..Len(lines) :
    (i < j /\ lines[i].attempt > 0 /\ lines[j].attempt > 0)
      => lines[i].attempt <= lines[j].attempt

\* C8: formatFailure renders the attempts in their order; an attempt whose
\* formatResultFailure tokens are empty gets no line and no annotation; an
\* attempt with tokens and retry index N > 0 gets exactly one "Retry #N"
\* marker, placed before its tokens; one annotation is recorded per rendered
\* attempt.
C8_RetryMarkersAndBlocks ==
  (failure # None /\ Call # None) =>
    /\ ~Returned.threw
    /\ InAttemptOrder(Returned.message)
    /\ \A k \in 1..Len(FormattedTest.results) :
         LET toks == TokensOf(k)
             mine == LinesOf(k)
             n == FormattedTest.results[k].retry
         IN  IF toks = <<>>
               THEN mine = <<>> /\ AnnotationsOf(k) = <<>>
               ELSE /\ Len(AnnotationsOf(k)) = 1
                    /\ IF n > 0
                         THEN /\ RetryMarkers(mine) = <<[kind |-> "retry", attempt |-> k,
                                                         detail |-> <<n>>]>>
                              /\ Len(mine) >= 2 + Len(toks)
                              /\ mine[2].kind = "retry"
                              /\ SubSeq(mine, 3, 2 + Len(toks)) = toks
                         ELSE /\ RetryMarkers(mine) = <<>>
                              /\ Len(mine) >= Len(toks)
                              /\ SubSeq(mine, 1, Len(toks)) = toks

FrameFailed(k) ==
  /\ Call.env # "ok"
  /\ FormattedTest.results[k].error # NoError
  /\ FormattedTest.results[k].error.stack \in {"inTest", "inHelper"}

InSeq(x, q) == \E i \in 1..Len(q) : q[i] = x

\* C9: formatFailure returns a message without raising for every error
\* shape, source file and code-frame outcome and attachment shape; a failed
\* file read or frame render omits the code frame and keeps the parsed
\* message, the location and the residual stack lines.
C9_RenderingNeverRaises ==
  (failure # None /\ Call # None) =>
    /\ ~Returned.threw
    /\ \A k \in 1..Len(FormattedTest.results) :
         FrameFailed(k) =>
           LET parsed == prepareErrorStack(FormattedTest.results[k].error.stack)
               errs == SelectSeq(LinesOf(k), LAMBDA l : l.kind = "error")
           IN  /\ Len(errs) = 1
               /\ ~InSeq("codeFrame", errs[1].detail)
               /\ InSeq(parsed.message, errs[1].detail)
               /\ InSeq(JoinLines(parsed.stackLines), errs[1].detail)
               /\ AnnotationsOf(k)[1].location = parsed.location

====
